---- MODULE Spec2Model ----
(***************************************************************************)
(* The Energy websocket API (homeassistant/components/energy):             *)
(* get_prefs, save_prefs and solar_forecast command handlers running as    *)
(* coroutines on one event loop, the EnergyManager they share, and the     *)
(* lazily discovered registry of solar-forecast platforms.                 *)
(* One action is one run of a coroutine from one suspension point (await)  *)
(* to the next.                                                            *)
(* The second part is the Yeelight light platform                          *)
(* (homeassistant/components/yeelight/light), with a specification of its  *)
(* own, SpecLight: one entity of one bulb and the calls on it.             *)
(***************************************************************************)
EXTENDS Integers, Sequences, FiniteSets, TLC

\* Number of websocket requests that can be in progress at the same time.
NumReq == 2

Requests == 1..NumReq

\* Python's None, and the empty dict {}.
None == [none |-> TRUE]

EmptyDict == [k \in {} |-> None]

(***************************************************************************)
(* The host: loaded integrations, their energy platforms, config entries.  *)
(***************************************************************************)

\* hass.config.components: the integrations the enumeration goes through.
Components == {"forecast_solar", "solaredge", "met"}

\* The energy platform module of an integration; only some define
\* async_get_solar_forecast.
PlatformOf(domain) ==
    IF domain \in {"forecast_solar", "solaredge"}
    THEN [name |-> domain, async_get_solar_forecast |-> domain]
    ELSE [name |-> domain]

\* hass.config_entries: entry4 does not exist.
ConfigEntries ==
    [entry1 |-> [domain |-> "forecast_solar"],
     entry2 |-> [domain |-> "solaredge"],
     entry3 |-> [domain |-> "met"]]

async_get_entry(config_entry_id) ==
    IF config_entry_id \in DOMAIN ConfigEntries
    THEN ConfigEntries[config_entry_id]
    ELSE None

\* What a platform's async_get_solar_forecast(hass, config_entry_id) can do:
\* return a forecast, return None, or raise.
ForecastValue(provider) ==
    IF provider = "forecast_solar" THEN [wh |-> 120] ELSE [wh |-> 80]

ProviderOutcomes(provider) ==
    {[kind |-> "return", value |-> ForecastValue(provider)],
     [kind |-> "return", value |-> None],
     [kind |-> "raise", value |-> None]}

(***************************************************************************)
(* Messages of the save_prefs command.                                     *)
(***************************************************************************)

Solar(ids) == [type |-> "solar", config_entry_solar_forecast |-> ids]

SolarNoForecast == [type |-> "solar"]

Grid(ids) == [type |-> "grid", config_entry_solar_forecast |-> ids]

Device(stat) == [stat_consumption |-> stat]

\* The bodies (the message without "id" and "type") a client sends.
BodyA ==
    [energy_sources |-> <<Solar(<<"entry1", "entry2">>)>>,
     device_consumption |-> <<Device("sensor.heater")>>]

BodyB ==
    [energy_sources |->
        <<Solar(<<"entry3", "entry4", "entry1">>), Grid(<<"entry2">>)>>]

BodyC == [device_consumption |-> <<Device("sensor.oven")>>]

BodyD ==
    [energy_sources |->
        <<SolarNoForecast, Solar(<<>>), Grid(<<"entry1">>)>>,
     device_consumption |-> <<>>]

\* One id listed twice by one solar source and again by a second one.
BodyE ==
    [energy_sources |->
        <<Solar(<<"entry1", "entry1">>), Solar(<<"entry2", "entry1">>)>>,
     device_consumption |-> <<>>]

BodyBad ==
    [energy_sources |-> <<[type |-> "wind"]>>,
     device_consumption |-> <<>>]

Bodies == {BodyA, BodyB, BodyC, BodyD, BodyE, BodyBad}

\* The message as the client sends it: the body plus "id" and "type".
SaveMsg(id, body) == body @@ [id |-> id, type |-> "energy/save_prefs"]

\* data.ENERGY_SOURCE_SCHEMA: every source is validated by its type tag.
SourceTypes == {"grid", "solar", "battery", "gas"}

ENERGY_SOURCE_SCHEMA(sources) ==
    \A i \in 1..Len(sources) : sources[i].type \in SourceTypes

DEVICE_CONSUMPTION_SCHEMA(device) == "stat_consumption" \in DOMAIN device

\* The command schema of energy/save_prefs: both lists are optional (variant:
\* energy_sources is not validated).
SavePrefsSchemaAny(msg) ==
    /\ msg.type = "energy/save_prefs"
    /\ "device_consumption" \in DOMAIN msg =>
          \A i \in 1..Len(msg.device_consumption) :
              DEVICE_CONSUMPTION_SCHEMA(msg.device_consumption[i])

SavePrefsSchema(msg) ==
    /\ msg.type = "energy/save_prefs"
    /\ "energy_sources" \in DOMAIN msg =>
          ENERGY_SOURCE_SCHEMA(msg.energy_sources)
    /\ "device_consumption" \in DOMAIN msg =>
          \A i \in 1..Len(msg.device_consumption) :
              DEVICE_CONSUMPTION_SCHEMA(msg.device_consumption[i])

\* dict.pop of a set of keys.
Pop(msg, keys) == [k \in DOMAIN msg \ keys |-> msg[k]]

(***************************************************************************)
(* State.                                                                  *)
(***************************************************************************)
VARIABLES
    data,            \* manager.data: None or the preferences document
    stored,          \* what the manager's store holds
    update_lock,     \* 0, or the request whose update is in flight
    hass_data,       \* hass.data, the keys this module uses
    processing,      \* components the running enumeration has yet to process
    enumerations,    \* how often async_process_integration_platforms started
    skipped,         \* components an enumeration that failed never processed
    pc,              \* per request: where its coroutine is suspended
    kind,            \* per request: the command type
    msg,             \* per request: the message dict the handler holds
    body,            \* per request: the save_prefs payload as the client sent it
    is_admin,        \* per request: connection.user.is_admin
    msg_id,          \* per request: the local msg_id of ws_save_prefs
    config_entries,  \* per request: the candidate ids, in dict order
    idx,             \* per request: position of the loop over config_entries
    invoked,         \* per request: ids whose provider has been called
    forecasts,       \* per request: the forecasts dict
    prefs_read,      \* per request: manager.data as ws_solar_forecast read it
    response,        \* per request: what was sent on the connection, or None
    sent,            \* per request: how many messages were sent for it
    last_update,     \* the payload, as its client sent it, of the latest update
    device_type,     \* yeelight: device.type, the kind of bulb
    nl_switch_light, \* yeelight: nightlight switch configured and supported
    entity,          \* yeelight: the class of the light entity that is called
    config,          \* yeelight: the entity's config (transition, save_on_change)
    last_properties, \* yeelight: bulb.last_properties as last reported
    is_nightlight_enabled,  \* yeelight: device.is_nightlight_enabled
    is_color_flow_enabled,  \* yeelight: device.is_color_flow_enabled
    music_mode,      \* yeelight: bulb.music_mode
    _effect,         \* yeelight: the entity's remembered effect
    _color_temp,     \* yeelight: the entity's cached colour temperature
    call,            \* yeelight: the latest call on the entity and its inputs
    commands         \* yeelight: the commands that call sent to the bulb

vars ==
    <<data, stored, update_lock, hass_data, processing, enumerations, skipped,
      pc, kind,
      msg, body, is_admin, msg_id, config_entries, idx, invoked, forecasts,
      prefs_read, response, sent, last_update,
      device_type, nl_switch_light, entity, config, last_properties,
      is_nightlight_enabled, is_color_flow_enabled, music_mode, _effect,
      _color_temp, call, commands>>

energyVars ==
    <<data, stored, update_lock, hass_data, processing, enumerations, skipped,
      pc, kind,
      msg, body, is_admin, msg_id, config_entries, idx, invoked, forecasts,
      prefs_read, response, sent, last_update>>

lightVars ==
    <<device_type, nl_switch_light, entity, config, last_properties,
      is_nightlight_enabled, is_color_flow_enabled, music_mode, _effect,
      _color_temp, call, commands>>

\* No yeelight device is set up.
NoLight ==
    /\ device_type = "none"
    /\ nl_switch_light = FALSE
    /\ entity = "none"
    /\ config = EmptyDict
    /\ last_properties = EmptyDict
    /\ is_nightlight_enabled = FALSE
    /\ is_color_flow_enabled = FALSE
    /\ music_mode = FALSE
    /\ _effect = <<>>
    /\ _color_temp = <<>>
    /\ call = [op |-> "none"]
    /\ commands = <<>>

prefsVars == <<data, stored, update_lock, last_update>>

reqVars == <<kind, msg, body, is_admin>>

registryVars == <<hass_data, processing, enumerations, skipped>>

solarVars == <<config_entries, idx, invoked, forecasts, prefs_read>>

loopVars == <<config_entries, idx, invoked, forecasts>>

DATA_ENERGY_PLATFORMS == "energy_platforms"

\* DOMAIN of homeassistant.components.energy.const.
Domain == "energy"

\* What the component keeps under hass.data[DOMAIN].
DomainData == [snapshot |-> "energy configuration"]

\* What the store can hold when the process starts: nothing, or the document
\* of a save_prefs of an earlier run.
StoredBefore == {None, BodyA}

\* async_get_manager loads what an earlier run of the process has stored.
Init ==
    /\ data \in StoredBefore
    /\ stored = data
    /\ last_update = data
    /\ update_lock = 0
    /\ hass_data = EmptyDict
    /\ processing = {}
    /\ enumerations = 0
    /\ skipped = {}
    /\ pc = [r \in Requests |-> "idle"]
    /\ kind = [r \in Requests |-> "none"]
    /\ msg = [r \in Requests |-> None]
    /\ body = [r \in Requests |-> None]
    /\ is_admin = [r \in Requests |-> FALSE]
    /\ msg_id = [r \in Requests |-> 0]
    /\ config_entries = [r \in Requests |-> <<>>]
    /\ idx = [r \in Requests |-> 0]
    /\ invoked = [r \in Requests |-> <<>>]
    /\ forecasts = [r \in Requests |-> EmptyDict]
    /\ prefs_read = [r \in Requests |-> None]
    /\ response = [r \in Requests |-> None]
    /\ sent = [r \in Requests |-> 0]
    /\ NoLight

(***************************************************************************)
(* The connection: one response per request.                               *)
(***************************************************************************)

send_result(r, id, result) ==
    /\ response' = [response EXCEPT ![r] =
                       [status |-> "result", id |-> id, result |-> result]]
    /\ sent' = [sent EXCEPT ![r] = @ + 1]
    /\ pc' = [pc EXCEPT ![r] = "done"]

send_error(r, id, code) ==
    /\ response' = [response EXCEPT ![r] =
                       [status |-> "error", id |-> id, result |-> code]]
    /\ sent' = [sent EXCEPT ![r] = @ + 1]
    /\ pc' = [pc EXCEPT ![r] = "done"]

\* websocket_api.async_response: an exception leaving the handler is
\* answered with an error message.
async_handle_exception(r) == send_error(r, msg[r].id, "unknown_error")

\* No command is behind require_admin (variant).
AdminOnlyNone(type) == FALSE

\* The commands decorated with @websocket_api.require_admin.
AdminOnly(type) == type = "energy/save_prefs"

\* A client sends a command. The dispatcher validates the message against the
\* command's schema, require_admin (save_prefs only) checks the user, and
\* with_manager suspends in async_get_manager.
Receive(r, m, b, admin, schema_ok, admin_only) ==
    /\ kind' = [kind EXCEPT ![r] = m.type]
    /\ msg' = [msg EXCEPT ![r] = m]
    /\ body' = [body EXCEPT ![r] = b]
    /\ is_admin' = [is_admin EXCEPT ![r] = admin]
    /\ IF ~schema_ok
       THEN send_error(r, m.id, "invalid_format")
       ELSE IF admin_only /\ ~admin
       THEN send_error(r, m.id, "unauthorized")
       ELSE /\ pc' = [pc EXCEPT ![r] = "manager"]
            /\ UNCHANGED <<response, sent>>
    /\ UNCHANGED <<prefsVars, registryVars, solarVars, msg_id>>
    /\ UNCHANGED lightVars

(***************************************************************************)
(* energy/get_prefs                                                        *)
(***************************************************************************)

GetPrefsReceive(r, admin) ==
    /\ pc[r] = "idle"
    /\ Receive(r, [id |-> r, type |-> "energy/get_prefs"], None, admin, TRUE,
               AdminOnly("energy/get_prefs"))

\* The test for missing preferences, also true of a document without energy
\* sources (variant).
PrefsMissingOrPartial(d) == d = None \/ "energy_sources" \notin DOMAIN d

\* "if manager.data is None"
PrefsMissing(d) == d = None

\* ws_get_prefs without the return after send_error: the result is sent too
\* (variant).
ws_get_prefs_no_return(r) ==
    /\ pc[r] = "manager"
    /\ kind[r] = "energy/get_prefs"
    /\ response' = [response EXCEPT ![r] =
                       [status |-> "result", id |-> msg[r].id, result |-> data]]
    /\ sent' = [sent EXCEPT ![r] = IF PrefsMissing(data) THEN @ + 2 ELSE @ + 1]
    /\ pc' = [pc EXCEPT ![r] = "done"]
    /\ UNCHANGED <<prefsVars, registryVars, solarVars, reqVars, msg_id>>
    /\ UNCHANGED lightVars

\* ws_get_prefs that sets up an empty document when there is none (variant).
ws_get_prefs_creating(r) ==
    /\ pc[r] = "manager"
    /\ kind[r] = "energy/get_prefs"
    /\ data' = IF PrefsMissing(data)
               THEN [energy_sources |-> <<>>, device_consumption |-> <<>>]
               ELSE data
    /\ send_result(r, msg[r].id, data')
    /\ UNCHANGED <<stored, update_lock, last_update, registryVars, solarVars,
                   reqVars, msg_id>>
    /\ UNCHANGED lightVars

ws_get_prefs(r) ==
    /\ pc[r] = "manager"
    /\ kind[r] = "energy/get_prefs"
    /\ IF PrefsMissing(data)
       THEN send_error(r, msg[r].id, "not_found")
       ELSE send_result(r, msg[r].id, data)
    /\ UNCHANGED <<prefsVars, registryVars, solarVars, reqVars, msg_id>>
    /\ UNCHANGED lightVars

(***************************************************************************)
(* energy/save_prefs and EnergyManager.async_update                        *)
(***************************************************************************)

SavePrefsReceive(r, b, admin) ==
    /\ pc[r] = "idle"
    /\ Receive(r, SaveMsg(r, b), b, admin, SavePrefsSchema(SaveMsg(r, b)),
               AdminOnly("energy/save_prefs"))

\* What ws_save_prefs hands to async_update: the message without the two keys
\* it has popped (variant: "type" is left in).
UpdateKeepsType(m) == Pop(m, {"id"})

Update(m) == Pop(m, {"id", "type"})

\* EnergyManager.async_update: one update at a time (variant: no lock), and
\* the document is replaced in full by the update (variant: merged into the
\* old document key by key).
UpdateUnserialized(r) == TRUE

UpdateMayStart(r) == update_lock = 0

ReplaceMerging(old, update) ==
    IF old = None THEN update
    ELSE [k \in DOMAIN old \cup DOMAIN update |->
             IF k \in DOMAIN update THEN update[k] ELSE old[k]]

Replace(old, update) == update

\* ws_save_prefs up to the suspension inside async_update (the store's save).
\* A request that finds an update in flight stays suspended until it is over.
ws_save_prefs(r) ==
    /\ pc[r] = "manager"
    /\ kind[r] = "energy/save_prefs"
    /\ UpdateMayStart(r)
    /\ msg_id' = [msg_id EXCEPT ![r] = msg[r].id]
    /\ msg' = [msg EXCEPT ![r] = Update(msg[r])]
    /\ data' = Replace(data, Update(msg[r]))
    /\ last_update' = body[r]
    /\ update_lock' = r
    /\ pc' = [pc EXCEPT ![r] = "persist"]
    /\ UNCHANGED <<stored, registryVars, solarVars, kind, body, is_admin,
                   response, sent>>
    /\ UNCHANGED lightVars

\* ws_save_prefs that answers with the document held before its update was
\* saved (variant).
ws_save_prefs_result_early(r) ==
    /\ pc[r] = "persist"
    /\ stored' = data
    /\ update_lock' = 0
    /\ send_result(r, msg_id[r], stored)
    /\ UNCHANGED <<data, last_update, registryVars, solarVars, reqVars, msg_id>>
    /\ UNCHANGED lightVars

\* The store has saved the document; async_update returns and ws_save_prefs
\* sends manager.data.
ws_save_prefs_result(r) ==
    /\ pc[r] = "persist"
    /\ stored' = data
    /\ update_lock' = 0
    /\ send_result(r, msg_id[r], data)
    /\ UNCHANGED <<data, last_update, registryVars, solarVars, reqVars, msg_id>>
    /\ UNCHANGED lightVars

(***************************************************************************)
(* The platform registry hass.data[DATA_ENERGY_PLATFORMS]                  *)
(***************************************************************************)

\* ws_solar_forecast's test for the first request (variant: an empty registry
\* counts as missing, "if not hass.data.get(DATA_ENERGY_PLATFORMS)").
RegistryEmpty(hd) ==
    \/ DATA_ENERGY_PLATFORMS \notin DOMAIN hd
    \/ DOMAIN hd[DATA_ENERGY_PLATFORMS] = {}

RegistryMissing(hd) == DATA_ENERGY_PLATFORMS \notin DOMAIN hd

\* The key is not set before the enumeration (variant).
CreateRegistryLater(hd) == hd

\* hass.data[DATA_ENERGY_PLATFORMS] = {}
CreateRegistry(hd) == (DATA_ENERGY_PLATFORMS :> EmptyDict) @@ hd

\* _process_energy_platform without the hasattr test: every platform is
\* registered, under its name (variant).
_process_energy_platform_any(hd, domain, platform) ==
    [hd EXCEPT ![DATA_ENERGY_PLATFORMS] = (domain :> platform.name) @@ @]

\* _process_energy_platform(hass, domain, platform)
_process_energy_platform(hd, domain, platform) ==
    IF "async_get_solar_forecast" \notin DOMAIN platform
    THEN hd
    ELSE [hd EXCEPT ![DATA_ENERGY_PLATFORMS] =
             (domain :> platform.async_get_solar_forecast) @@ @]

\* async_process_integration_platforms: one task per loaded component, run
\* together; each calls the callback with the component's energy platform.
ProcessPlatform(domain) ==
    /\ domain \in processing
    /\ processing' = processing \ {domain}
    /\ hass_data' = _process_energy_platform(hass_data, domain, PlatformOf(domain))
    /\ UNCHANGED <<prefsVars, enumerations, skipped, pc, reqVars, msg_id,
                   solarVars, response, sent>>
    /\ UNCHANGED lightVars

(***************************************************************************)
(* energy/info                                                             *)
(***************************************************************************)

\* The component's setup stores its data under hass.data[DOMAIN].
SetDomainData ==
    /\ Domain \notin DOMAIN hass_data
    /\ hass_data' = (Domain :> DomainData) @@ hass_data
    /\ UNCHANGED <<prefsVars, processing, enumerations, skipped, pc, reqVars,
                   msg_id, solarVars, response, sent>>
    /\ UNCHANGED lightVars

\* ws_info is a plain callback: it runs when the message is dispatched, with
\* no suspension. The subscript raises KeyError when the key is not there.
ws_info(r, admin) ==
    /\ pc[r] = "idle"
    /\ kind' = [kind EXCEPT ![r] = "energy/info"]
    /\ msg' = [msg EXCEPT ![r] = [id |-> r, type |-> "energy/info"]]
    /\ is_admin' = [is_admin EXCEPT ![r] = admin]
    /\ IF AdminOnly("energy/info") /\ ~admin
       THEN send_error(r, r, "unauthorized")
       ELSE IF Domain \notin DOMAIN hass_data
       THEN send_error(r, r, "unknown_error")
       ELSE send_result(r, r, hass_data[Domain])
    /\ UNCHANGED <<prefsVars, registryVars, solarVars, body, msg_id>>
    /\ UNCHANGED lightVars

(***************************************************************************)
(* energy/solar_forecast                                                   *)
(***************************************************************************)

SolarForecastReceive(r, admin) ==
    /\ pc[r] = "idle"
    /\ Receive(r, [id |-> r, type |-> "energy/solar_forecast"], None, admin,
               TRUE, AdminOnly("energy/solar_forecast"))

\* The guard of the loop over the energy sources (variant: the type is not
\* looked at).
IsSourceWithList(source) == "config_entry_solar_forecast" \in DOMAIN source

IsSolarWithForecast(source) ==
    ~(\/ source.type # "solar"
      \/ "config_entry_solar_forecast" \notin DOMAIN source)

\* config_entries as a list that takes every id as often as it is listed
\* (variant).
RECURSIVE AddEntriesAll(_, _, _)
AddEntriesAll(entries, ids, i) ==
    IF i > Len(ids) THEN entries
    ELSE AddEntriesAll(Append(entries, ids[i]), ids, i + 1)

\* config_entries[config_entry] = None, for every id of one list.
RECURSIVE AddEntries(_, _, _)
AddEntries(entries, ids, i) ==
    IF i > Len(ids) THEN entries
    ELSE AddEntries(
             IF \E j \in 1..Len(entries) : entries[j] = ids[i]
             THEN entries ELSE Append(entries, ids[i]),
             ids, i + 1)

\* The keys of config_entries, in insertion order, after the loop over the
\* sources from position i on.
RECURSIVE CollectEntries(_, _, _)
CollectEntries(sources, i, entries) ==
    IF i > Len(sources) THEN entries
    ELSE CollectEntries(
             sources, i + 1,
             IF IsSolarWithForecast(sources[i])
             THEN AddEntries(entries, sources[i].config_entry_solar_forecast, 1)
             ELSE entries)

\* "config_entry is None or config_entry.domain not in get_forecast_by_domain"
Skips(config_entry_id, registry) ==
    \/ async_get_entry(config_entry_id) = None
    \/ async_get_entry(config_entry_id).domain \notin DOMAIN registry

\* The position of the first entry from i on that the loop does not skip.
RECURSIVE NextCall(_, _, _)
NextCall(entries, i, registry) ==
    IF i > Len(entries) THEN i
    ELSE IF Skips(entries[i], registry) THEN NextCall(entries, i + 1, registry)
    ELSE i

\* The loop over config_entries from position i on, up to its next await or
\* to the send_result after it.
Loop(r, entries, i, fc) ==
    LET j == NextCall(entries, i, hass_data'[DATA_ENERGY_PLATFORMS]) IN
    /\ idx' = [idx EXCEPT ![r] = j]
    /\ forecasts' = [forecasts EXCEPT ![r] = fc]
    /\ config_entries' = [config_entries EXCEPT ![r] = entries]
    /\ IF j > Len(entries)
       THEN /\ send_result(r, msg[r].id, fc)
            /\ UNCHANGED invoked
       ELSE /\ pc' = [pc EXCEPT ![r] = "provider"]
            /\ invoked' = [invoked EXCEPT ![r] = Append(@, entries[j])]
            /\ UNCHANGED <<response, sent>>

\* ws_solar_forecast from its start to its first await.
ws_solar_forecast(r) ==
    /\ pc[r] = "manager"
    /\ kind[r] = "energy/solar_forecast"
    /\ prefs_read' = [prefs_read EXCEPT ![r] = data]
    /\ IF data = None
       THEN /\ send_result(r, msg[r].id, EmptyDict)
            /\ UNCHANGED <<registryVars, loopVars>>
       ELSE IF "energy_sources" \notin DOMAIN data
       THEN /\ async_handle_exception(r)
            /\ UNCHANGED <<registryVars, loopVars>>
       ELSE LET entries == CollectEntries(data.energy_sources, 1, <<>>) IN
            IF entries = <<>>
            THEN /\ send_result(r, msg[r].id, EmptyDict)
                 /\ UNCHANGED <<registryVars, loopVars>>
            ELSE IF RegistryMissing(hass_data)
            THEN /\ hass_data' = CreateRegistry(hass_data)
                 /\ processing' = Components
                 /\ enumerations' = enumerations + 1
                 /\ UNCHANGED skipped
                 /\ config_entries' = [config_entries EXCEPT ![r] = entries]
                 /\ pc' = [pc EXCEPT ![r] = "discover"]
                 /\ UNCHANGED <<idx, invoked, forecasts, response, sent>>
            ELSE /\ UNCHANGED registryVars
                 /\ Loop(r, entries, 1, EmptyDict)
    /\ UNCHANGED <<prefsVars, reqVars, msg_id>>
    /\ UNCHANGED lightVars

\* async_process_integration_platforms fails before it has processed every
\* component: the rest is never processed and the exception leaves the
\* handler that awaits the enumeration.
ws_solar_forecast_discovery_fails(r) ==
    /\ pc[r] = "discover"
    /\ processing # {}
    /\ skipped' = processing
    /\ processing' = {}
    /\ async_handle_exception(r)
    /\ UNCHANGED <<prefsVars, hass_data, enumerations, solarVars, reqVars,
                   msg_id>>
    /\ UNCHANGED lightVars

\* async_process_integration_platforms has returned.
ws_solar_forecast_discovered(r) ==
    /\ pc[r] = "discover"
    /\ processing = {}
    /\ UNCHANGED <<registryVars, prefs_read>>
    /\ Loop(r, config_entries[r], 1, EmptyDict)
    /\ UNCHANGED <<prefsVars, reqVars, msg_id>>
    /\ UNCHANGED lightVars

\* The provider registered for the entry the request is waiting on.
CalledProvider(r) ==
    hass_data[DATA_ENERGY_PLATFORMS][
        async_get_entry(config_entries[r][idx[r]]).domain]

\* "if forecast is not None: forecasts[config_entry_id] = forecast"
Keep(fc, config_entry_id, forecast) ==
    IF forecast # None THEN (config_entry_id :> forecast) @@ fc ELSE fc

\* The awaited provider call ends.
ws_solar_forecast_provider(r) ==
    /\ pc[r] = "provider"
    /\ \E outcome \in ProviderOutcomes(CalledProvider(r)) :
           IF outcome.kind = "raise"
           THEN /\ async_handle_exception(r)
                /\ UNCHANGED <<registryVars, solarVars>>
           ELSE /\ UNCHANGED <<registryVars, prefs_read>>
                /\ Loop(r, config_entries[r], idx[r] + 1,
                        Keep(forecasts[r], config_entries[r][idx[r]],
                             outcome.value))
    /\ UNCHANGED <<prefsVars, reqVars, msg_id>>
    /\ UNCHANGED lightVars

\* The awaited provider call is one that never returns: the coroutine stays
\* suspended in the await for good.
ws_solar_forecast_provider_hangs(r) ==
    /\ pc[r] = "provider"
    /\ pc' = [pc EXCEPT ![r] = "hung"]
    /\ UNCHANGED <<prefsVars, registryVars, solarVars, reqVars, msg_id,
                   response, sent>>
    /\ UNCHANGED lightVars

\* Only require_admin looks at the user: a command without it is sent by a
\* user who is not an admin, the one a gate would refuse.
Next ==
    \/ \E r \in Requests : GetPrefsReceive(r, FALSE)
    \/ \E r \in Requests : ws_get_prefs(r)
    \/ \E r \in Requests, b \in Bodies, admin \in BOOLEAN :
           SavePrefsReceive(r, b, admin)
    \/ \E r \in Requests : ws_save_prefs(r)
    \/ \E r \in Requests : ws_save_prefs_result(r)
    \/ SetDomainData
    \/ \E r \in Requests : ws_info(r, FALSE)
    \/ \E r \in Requests : SolarForecastReceive(r, FALSE)
    \/ \E r \in Requests : ws_solar_forecast(r)
    \/ \E r \in Requests : ws_solar_forecast_discovery_fails(r)
    \/ \E r \in Requests : ws_solar_forecast_discovered(r)
    \/ \E r \in Requests : ws_solar_forecast_provider(r)
    \/ \E r \in Requests : ws_solar_forecast_provider_hangs(r)
    \/ \E domain \in Components : ProcessPlatform(domain)

Spec == Init /\ [][Next]_vars

(***************************************************************************)
(* Properties.                                                             *)
(***************************************************************************)

IsSolarRequest(r) == kind[r] = "energy/solar_forecast"

IsSaveRequest(r) == kind[r] = "energy/save_prefs"

IsGetRequest(r) == kind[r] = "energy/get_prefs"

Answered(r) == pc[r] = "done"

Succeeded(r) == pc[r] = "done" /\ response[r].status = "result"

\* The request has got past the candidate set: it is non-empty.
HasCandidates(r) == IsSolarRequest(r) /\ config_entries[r] # <<>>

\* C1: however many solar_forecast requests with a non-empty candidate set
\* interleave while the registry is not yet there, the enumeration of the
\* integrations is started exactly once: never twice, and once as soon as one
\* such request has got past the candidate set.
C1_EnumerationStartedOnce ==
    /\ enumerations <= 1
    /\ \A r \in Requests : HasCandidates(r) => enumerations = 1

\* Two requests with candidates at once: one waits for the enumeration it has
\* started, the other has passed the registry test meanwhile.
C1_Witness ==
    \E r1, r2 \in Requests :
        /\ r1 # r2
        /\ pc[r1] = "discover"
        /\ HasCandidates(r2)
        /\ enumerations = 1

\* C2: a solar_forecast request looks up providers only once the discovery
\* pass is complete: while components are still to be processed no request has
\* started its loop over the candidates.
C2_LookupOnlyAfterDiscovery ==
    \A r \in Requests : (IsSolarRequest(r) /\ idx[r] > 0) => processing = {}

\* C3: every solar_forecast request ends with a success result, whatever
\* its providers do; stated for the requests that have got to the loop over
\* their candidates, whose answer depends on the providers.
C3_ForecastNeverFails ==
    \A r \in Requests :
        (HasCandidates(r) /\ idx[r] > 0 /\ Answered(r))
        => response[r].status = "result"

\* C4: a provider that raises costs only its own entry: the forecasts the
\* other providers of the request have returned are in the response.
C4_OtherForecastsSurvive ==
    \A r \in Requests :
        (IsSolarRequest(r) /\ Answered(r)) =>
            \A id \in DOMAIN forecasts[r] :
                /\ response[r].status = "result"
                /\ id \in DOMAIN response[r].result

\* The candidates of r that the loop does not skip with the registry as it is.
Resolvable(r) ==
    {config_entries[r][j] : j \in
        {k \in 1..Len(config_entries[r]) :
            ~Skips(config_entries[r][k], hass_data[DATA_ENERGY_PLATFORMS])}}

Invoked(r) == {invoked[r][j] : j \in 1..Len(invoked[r])}

\* C5: the provider calls of one request are issued together: while the
\* request waits for a provider, every resolvable candidate's provider has
\* been called.
C5_ProvidersCalledTogether ==
    \A r \in Requests :
        (pc[r] = "provider" /\ processing = {}) => Resolvable(r) \subseteq Invoked(r)

\* The requests whose update has replaced the document.
Updated(r) == IsSaveRequest(r) /\ (pc[r] = "persist" \/ Succeeded(r))

\* C6: updates are serialized, and two save_prefs that ran together leave
\* exactly the payload of one of them: at most one update is in flight, the
\* lock is held by it, and when two saves have completed (and no third one has
\* updated) the document is the payload of one of the two.
C6_UpdatesSerialized ==
    /\ Cardinality({r \in Requests : pc[r] = "persist"}) <= 1
    /\ \A r \in Requests : pc[r] = "persist" => update_lock = r
    /\ \A r1, r2 \in Requests :
           (/\ r1 # r2
            /\ Succeeded(r1) /\ IsSaveRequest(r1)
            /\ Succeeded(r2) /\ IsSaveRequest(r2)
            /\ \A r3 \in Requests \ {r1, r2} : ~Updated(r3))
           => (data = body[r1] \/ data = body[r2])

\* Two saves with different payloads overlap: one is in its update, the other
\* has been received and waits for it.
C6_Witness ==
    \E r1, r2 \in Requests :
        /\ pc[r1] = "persist"
        /\ IsSaveRequest(r2) /\ pc[r2] = "manager"
        /\ body[r1] # body[r2]
        /\ data = body[r1]

\* C7: save_prefs with payload P, completed, followed by get_prefs with no
\* other update started in between: get_prefs answers with a document equal
\* to P.
C7_SaveThenGet ==
    [][\A g \in Requests :
          (ws_get_prefs(g) /\ last_update # None /\ update_lock = 0)
          => response'[g] =
                 [status |-> "result", id |-> g, result |-> last_update]]_vars

\* A completed save and a get_prefs answered with its payload.
C7_Witness ==
    \E s, g \in Requests :
        /\ IsSaveRequest(s) /\ Succeeded(s)
        /\ IsGetRequest(g) /\ Succeeded(g)
        /\ response[g].result = body[s]
        /\ last_update = body[s]
        /\ stored = body[s]

\* C8: the update of a save_prefs replaces the document in full: afterwards
\* it has the fields of the payload and no others, so a field of the old
\* document that the payload omits is gone.
C8_ReplacedInFull ==
    [][\A r \in Requests :
          ws_save_prefs(r)
          => /\ DOMAIN data' = DOMAIN body[r]
             /\ \A k \in DOMAIN data' : data'[k] = body[r][k]]_vars

\* An update whose payload omits energy_sources over a document that has
\* them (the store still holds the old document).
C8_Witness ==
    \E r \in Requests :
        /\ pc[r] = "persist"
        /\ stored # None
        /\ "energy_sources" \in DOMAIN stored
        /\ "energy_sources" \notin DOMAIN body[r]
        /\ "energy_sources" \notin DOMAIN data

\* A payload with an energy source of an unrecognised type.
HasUnknownType(b) ==
    /\ b # None
    /\ "energy_sources" \in DOMAIN b
    /\ \E i \in 1..Len(b.energy_sources) :
           b.energy_sources[i].type \notin SourceTypes

\* C9: an invalid save_prefs is answered with a validation error and never
\* reaches the update, and the preferences are always absent or a document
\* without an unrecognised source type.
C9_InvalidRejected ==
    /\ ~HasUnknownType(data)
    /\ ~HasUnknownType(stored)
    /\ \A r \in Requests :
           HasUnknownType(body[r])
           => /\ pc[r] = "done"
              /\ response[r] =
                     [status |-> "error", id |-> r, result |-> "invalid_format"]

\* An invalid save from an admin has been answered; preferences exist.
C9_Witness ==
    \E r \in Requests :
        /\ HasUnknownType(body[r])
        /\ is_admin[r]
        /\ response[r].status = "error"
        /\ data # None
        /\ data = stored

\* The ids a document lists in config_entry_solar_forecast of a solar source.
SolarIds(doc) ==
    IF doc = None \/ "energy_sources" \notin DOMAIN doc THEN {}
    ELSE {id \in {"entry1", "entry2", "entry3", "entry4"} :
             \E i \in 1..Len(doc.energy_sources) :
                 /\ doc.energy_sources[i].type = "solar"
                 /\ "config_entry_solar_forecast" \in
                        DOMAIN doc.energy_sources[i]
                 /\ \E j \in 1..Len(doc.energy_sources[i].config_entry_solar_forecast) :
                        doc.energy_sources[i].config_entry_solar_forecast[j] = id}

\* C10: every key of a solar_forecast result is listed by a solar source of
\* the preferences the request read, is an existing config entry, of a domain
\* with a registered provider, and its provider was called and returned a
\* value.
C10_OnlyQualifiedKeys ==
    \A r \in Requests :
        (IsSolarRequest(r) /\ Succeeded(r)) =>
            \A id \in DOMAIN response[r].result :
                /\ id \in SolarIds(prefs_read[r])
                /\ id \in DOMAIN ConfigEntries
                /\ ConfigEntries[id].domain \in
                       DOMAIN hass_data[DATA_ENERGY_PLATFORMS]
                /\ id \in Invoked(r)
                /\ response[r].result[id] # None

\* A result with entry1 alone, for preferences that also list an entry of a
\* domain without provider, a missing entry and an id of a grid source.
C10_Witness ==
    \E r \in Requests :
        /\ IsSolarRequest(r) /\ Succeeded(r)
        /\ prefs_read[r] = BodyB
        /\ processing = {}
        /\ DOMAIN response[r].result = {"entry1"}

\* C11: an id of a solar source whose entry exists, whose domain has a
\* provider and whose provider has returned a value v is mapped to exactly v
\* in the response of the request.
C11_ReturnedForecastMapped ==
    \A r \in Requests :
        (IsSolarRequest(r) /\ Answered(r)) =>
            \A id \in DOMAIN forecasts[r] :
                /\ response[r].status = "result"
                /\ id \in DOMAIN response[r].result
                /\ response[r].result[id] =
                       ForecastValue(ConfigEntries[id].domain)

\* C12: a solar_forecast request that finds the preferences absent, or
\* without a solar source that lists an id, answers with the empty mapping,
\* and its step neither creates or changes the registry, nor starts the
\* enumeration, nor calls a provider.
C12_EmptyWithoutDiscovery ==
    [][\A r \in Requests :
          (ws_solar_forecast(r) /\ SolarIds(data) = {})
          => /\ response'[r].status = "result"
             /\ response'[r].id = r
             /\ DOMAIN response'[r].result = {}
             /\ hass_data' = hass_data
             /\ enumerations' = enumerations
             /\ invoked' = invoked]_vars

NoDuplicates(seq) ==
    \A i, j \in 1..Len(seq) : seq[i] = seq[j] => i = j

\* C13: within one solar_forecast request every id is a candidate once and
\* its provider is called at most once, however often the preferences list
\* the id.
C13_EachIdOnce ==
    \A r \in Requests :
        IsSolarRequest(r) =>
            /\ NoDuplicates(config_entries[r])
            /\ NoDuplicates(invoked[r])

\* A request answered for preferences that list entry1 three times, in two
\* solar sources: one call for entry1, one for entry2.
C13_Witness ==
    \E r \in Requests :
        /\ IsSolarRequest(r) /\ Succeeded(r)
        /\ prefs_read[r] = BodyE
        /\ config_entries[r] = <<"entry1", "entry2">>
        /\ invoked[r] = <<"entry1", "entry2">>
        /\ DOMAIN response[r].result = {"entry1", "entry2"}

\* C14: get_prefs answers not_found exactly when no preferences are stored,
\* and otherwise with the document stored at that moment.
C14_NotFoundIffNoPrefs ==
    [][\A g \in Requests :
          ws_get_prefs(g)
          => /\ response'[g].id = g
             /\ IF data = None
                THEN /\ response'[g].status = "error"
                     /\ response'[g].result = "not_found"
                ELSE /\ response'[g].status = "result"
                     /\ response'[g].result = data]_vars

\* get_prefs answered not_found before any preferences existed, and a save
\* completed after it.
C14_Witness ==
    \E g, s \in Requests :
        /\ IsGetRequest(g) /\ Answered(g)
        /\ response[g].status = "error"
        /\ response[g].result = "not_found"
        /\ IsSaveRequest(s) /\ Succeeded(s)
        /\ data = body[s]

IsInfoRequest(r) == kind[r] = "energy/info"

C16_OneResponse ==
    \A r \in Requests :
        /\ sent[r] <= 1
        /\ pc[r] = "done" <=> sent[r] = 1
        /\ pc[r] = "done"
           => /\ response[r].id = r
              /\ response[r].status \in {"result", "error"}

\* A save_prefs answered under its id after "id" and "type" were popped from
\* its message, next to an answered request of another command.
C16_Witness ==
    \E s, r \in Requests :
        /\ IsSaveRequest(s) /\ Succeeded(s)
        /\ DOMAIN msg[s] \cap {"id", "type"} = {}
        /\ response[s].id = s
        /\ sent[s] = 1
        /\ ~IsSaveRequest(r) /\ Answered(r)
        /\ response[r].id = r
        /\ sent[r] = 1

\* C17: an energy/info request is answered with a result in every state it
\* can be sent in, also before hass.data[DOMAIN] is there.
C17_InfoAlwaysSucceeds ==
    \A r \in Requests :
        (IsInfoRequest(r) /\ Answered(r)) => response[r].status = "result"

\* C18: a provider that never returns holds up nothing but its own entry:
\* when a request is stuck for good in the call for one candidate, the
\* providers of its other resolvable candidates have been called. (The stuck
\* request takes no further step, so what has not been called by then never
\* is.)
C18_HangingProviderAlone ==
    \A r \in Requests :
        (pc[r] = "hung" /\ processing = {})
        => Resolvable(r) \subseteq Invoked(r)

\* The registry is there and the enumeration has processed every component.
PassComplete == ~RegistryMissing(hass_data) /\ processing = {}

\* C20: the registry is written once and then only read: a step taken after
\* the enumeration has completed leaves the mapping as it is, and a step in
\* which a solar_forecast request looks up providers (its loop advances) is
\* only taken once the enumeration has completed.
C20_WriteOnceThenReadOnly ==
    [][/\ PassComplete
          => hass_data'[DATA_ENERGY_PLATFORMS] = hass_data[DATA_ENERGY_PLATFORMS]
       /\ \A r \in Requests : idx'[r] # idx[r] => PassComplete]_vars

\* The components whose energy platform has async_get_solar_forecast.
Capable ==
    {d \in Components : "async_get_solar_forecast" \in DOMAIN PlatformOf(d)}

\* C21: a domain is a key of the registry exactly when its platform has been
\* processed and has async_get_solar_forecast, and its value is that
\* platform's function; so after the pass the keys are the capable domains,
\* and a platform without the function has left the registry as it was.
C21_RegisteredIffCapable ==
    ~RegistryMissing(hass_data)
    => /\ \A d \in Components :
              d \in DOMAIN hass_data[DATA_ENERGY_PLATFORMS]
              <=> (d \in Capable /\ d \notin processing \cup skipped)
       /\ \A d \in DOMAIN hass_data[DATA_ENERGY_PLATFORMS] :
              hass_data[DATA_ENERGY_PLATFORMS][d] =
                  PlatformOf(d).async_get_solar_forecast
       /\ DOMAIN hass_data[DATA_ENERGY_PLATFORMS] \subseteq Components

\* The pass is over: the two capable domains are registered, each with its
\* own function, and the third component is not.
C21_Witness ==
    /\ PassComplete
    /\ skipped = {}
    /\ enumerations = 1
    /\ DOMAIN hass_data[DATA_ENERGY_PLATFORMS] = {"forecast_solar", "solaredge"}
    /\ hass_data[DATA_ENERGY_PLATFORMS]["solaredge"] = "solaredge"
    /\ "met" \in Components

\* C24: the registry key is set before the enumeration runs, so the
\* enumeration is started at most once also when it fails midway: the key is
\* there while a request awaits the enumeration and while components are
\* being processed, and after a failure the enumeration has been started
\* once, nothing is being processed, and the registry holds what was
\* registered before the failure.
C24_NoSecondDiscovery ==
    /\ \A r \in Requests : pc[r] = "discover" => ~RegistryMissing(hass_data)
    /\ processing # {} => ~RegistryMissing(hass_data)
    /\ skipped # {}
       => /\ enumerations = 1
          /\ processing = {}
          /\ ~RegistryMissing(hass_data)
          /\ DOMAIN hass_data[DATA_ENERGY_PLATFORMS] = Capable \ skipped

\* The enumeration has failed after forecast_solar alone was processed and its
\* request was answered with an error; another request has been answered
\* from the registry as the failure left it, with entry1 and without entry2.
C24_Witness ==
    \E r1, r2 \in Requests :
        /\ skipped = {"solaredge", "met"}
        /\ IsSolarRequest(r1) /\ Answered(r1)
        /\ response[r1].status = "error"
        /\ idx[r1] = 0
        /\ IsSolarRequest(r2) /\ Succeeded(r2)
        /\ config_entries[r2] = <<"entry1", "entry2">>
        /\ DOMAIN response[r2].result = {"entry1"}
        /\ enumerations = 1

\* C22: the preferences change only by the update of a save_prefs of an
\* admin that has passed the schema, and the store only when that update is
\* saved; no other step changes either, and neither becomes absent again
\* once it holds a document.
C22_OnlySaveChangesPrefs ==
    [][/\ data' # data
          => \E r \in Requests :
                 /\ ws_save_prefs(r)
                 /\ is_admin[r]
                 /\ SavePrefsSchema(SaveMsg(r, body[r]))
                 /\ data' = body[r]
       /\ stored' # stored
          => \E r \in Requests : ws_save_prefs_result(r) /\ stored' = body[r]
       /\ data # None => data' # None
       /\ stored # None => stored' # None]_vars

\* A get_prefs and a solar_forecast have been answered from the preferences of
\* an earlier run, which are still the ones held and stored.
C22_Witness ==
    \E g, f \in Requests :
        /\ IsGetRequest(g) /\ Succeeded(g)
        /\ response[g].result = BodyA
        /\ IsSolarRequest(f) /\ Succeeded(f)
        /\ DOMAIN response[f].result = {"entry1", "entry2"}
        /\ data = BodyA /\ stored = BodyA /\ last_update = BodyA

\* C23: the result of a save_prefs is the document of its own update, also
\* when another save_prefs is under way: while its update is in flight the
\* document held is its payload, and its result is its payload.
C23_OwnUpdateReturned ==
    \A r \in Requests :
        /\ pc[r] = "persist" => data = body[r]
        /\ (IsSaveRequest(r) /\ Succeeded(r))
           => /\ response[r].id = r
              /\ response[r].result = body[r]

\* Two saves with different payloads, received before either update began:
\* the first has been answered with its own payload while the update of the
\* second is in flight.
C23_Witness ==
    \E r1, r2 \in Requests :
        /\ IsSaveRequest(r1) /\ Succeeded(r1)
        /\ response[r1].result = BodyB
        /\ pc[r2] = "persist"
        /\ body[r2] = BodyD
        /\ data = BodyD
        /\ stored = BodyB

(***************************************************************************)
(* The Yeelight light platform (homeassistant/components/yeelight/light):  *)
(* the entities async_setup_entry creates for one bulb, what they report   *)
(* from the bulb's last properties, and the commands async_turn_on and     *)
(* async_turn_off send to the bulb.                                        *)
(* An optional value (a keyword argument that may be missing, a property   *)
(* that may be None) is <<>> for None and <<v>> for the value v; a tuple   *)
(* such as an hs colour is the tuple itself. A property the bulb reports   *)
(* is a string: a numeric one is the sequence of its decimal digits.       *)
(***************************************************************************)

\* BulbType, and a type async_setup_entry does not know.
BulbTypes == {"White", "Color", "WhiteTemp", "WhiteTempMood", "Unknown"}

\* The entity classes for a bulb, in the order they are added.
async_setup_entry(type, nl_switch) ==
    IF type = "White" THEN <<"YeelightGenericLight">>
    ELSE IF type = "Color"
    THEN IF nl_switch
         THEN <<"YeelightColorLightWithNightlightSwitch",
                "YeelightNightLightModeWithoutBrightnessControl">>
         ELSE <<"YeelightColorLightWithoutNightlightSwitch">>
    ELSE IF type = "WhiteTemp"
    THEN IF nl_switch
         THEN <<"YeelightWithNightLight", "YeelightNightLightMode">>
         ELSE <<"YeelightWhiteTempWithoutNightlightSwitch">>
    ELSE IF type = "WhiteTempMood"
    THEN (IF nl_switch
          THEN <<"YeelightNightLightModeWithAmbientSupport",
                 "YeelightWithAmbientAndNightlight">>
          ELSE <<"YeelightWithAmbientWithoutNightlight">>)
         \o <<"YeelightAmbientLight">>
    ELSE <<"YeelightGenericLight">>

\* The classes that derive from each mixin or base class.
YeelightColorLightSupport ==
    {"YeelightColorLightWithoutNightlightSwitch",
     "YeelightColorLightWithNightlightSwitch", "YeelightAmbientLight"}

YeelightWhiteTempLightSupport ==
    {"YeelightWhiteTempWithoutNightlightSwitch", "YeelightWithNightLight",
     "YeelightWithAmbientWithoutNightlight", "YeelightWithAmbientAndNightlight"}

YeelightNightLightSupport ==
    {"YeelightColorLightWithNightlightSwitch", "YeelightWithNightLight",
     "YeelightWithAmbientAndNightlight"}

YeelightNightLightMode ==
    {"YeelightNightLightMode", "YeelightNightLightModeWithAmbientSupport",
     "YeelightNightLightModeWithoutBrightnessControl"}

\* int() of a string of decimal digits.
RECURSIVE int(_)
int(digits) ==
    IF digits = <<>> THEN 0
    ELSE 10 * int(SubSeq(digits, 1, Len(digits) - 1)) + digits[Len(digits)]

\* round() of the float 255 * (percent / 100): to the nearest integer, a half
\* to the even one.
Round255(percent) ==
    LET q == (255 * percent) \div 100
        r == (255 * percent) % 100
    IN  IF r < 50 THEN q
        ELSE IF r > 50 THEN q + 1
        ELSE IF q % 2 = 0 THEN q ELSE q + 1

\* homeassistant.util.color: color_temperature_kelvin_to_mired and
\* color_temperature_mired_to_kelvin.
kelvin_to_mired(kelvin) == 1000000 \div kelvin

mired_to_kelvin(mired) == 1000000 \div mired

\* _get_property: dict.get on the last properties; the ambient light reads
\* the bg_ properties.
PROPERTIES_MAPPING == [color_mode |-> "bg_lmode"]

_get_property(klass, props, prop) ==
    LET name == IF klass = "YeelightAmbientLight"
                THEN IF prop \in DOMAIN PROPERTIES_MAPPING
                     THEN PROPERTIES_MAPPING[prop]
                     ELSE "bg_" \o prop
                ELSE prop
    IN  IF name \in DOMAIN props THEN <<props[name]>> ELSE <<>>

_brightness_property(klass) ==
    IF klass \in YeelightNightLightMode THEN "nl_br"
    ELSE IF klass \in {"YeelightColorLightWithoutNightlightSwitch",
                       "YeelightWhiteTempWithoutNightlightSwitch",
                       "YeelightWithAmbientWithoutNightlight"}
    THEN "current_brightness"
    ELSE "bright"

_power_property(klass) ==
    IF klass \in {"YeelightNightLightModeWithAmbientSupport",
                  "YeelightWithAmbientWithoutNightlight",
                  "YeelightWithAmbientAndNightlight"}
    THEN "main_power"
    ELSE "power"

\* _turn_on_power_mode with every entity a plain light (variant).
_turn_on_power_mode_last(klass) == "LAST"

_turn_on_power_mode(klass) ==
    IF klass \in YeelightNightLightSupport THEN "NORMAL"
    ELSE IF klass \in YeelightNightLightMode THEN "MOONLIGHT"
    ELSE "LAST"

light_type(klass) ==
    IF klass = "YeelightAmbientLight" THEN "Ambient" ELSE "Main"

supported_color_modes(klass) ==
    IF klass \in YeelightColorLightSupport THEN {"color_temp", "hs", "rgb"}
    ELSE IF klass \in YeelightWhiteTempLightSupport THEN {"color_temp"}
    ELSE IF klass = "YeelightNightLightModeWithoutBrightnessControl"
    THEN {"onoff"}
    ELSE {"brightness"}

color_mode(klass, props) ==
    IF klass \in YeelightColorLightSupport
    THEN LET mode == int(_get_property(klass, props, "color_mode")[1])
         IN  IF mode = 1 THEN "rgb"
             ELSE IF mode = 2 THEN "color_temp"
             ELSE IF mode = 3 THEN "hs"
             ELSE "unknown"
    ELSE IF klass \in YeelightWhiteTempLightSupport THEN "color_temp"
    ELSE IF klass = "YeelightNightLightModeWithoutBrightnessControl"
    THEN "onoff"
    ELSE "brightness"

\* is_on of a nightlight entity that ignores the nightlight mode (variant).
is_on_any_mode(klass, props, nightlight) ==
    /\ _get_property(klass, props, _power_property(klass)) = <<"on">>
    /\ klass \in YeelightNightLightSupport => ~nightlight

is_on(klass, props, nightlight) ==
    /\ _get_property(klass, props, _power_property(klass)) = <<"on">>
    /\ klass \in YeelightNightLightSupport => ~nightlight
    /\ klass \in YeelightNightLightMode => nightlight

\* The brightness property, 1..255.
brightness(klass, props, music) ==
    Round255(int(_get_property(klass, props,
                               IF music THEN "bright"
                               ELSE _brightness_property(klass))[1]))

\* The colour temperature in mireds; the second component is the value the
\* entity remembers from then on.
color_temp(klass, props, remembered) ==
    LET temp_in_k == _get_property(klass, props, "ct")
    IN  IF temp_in_k # <<>> /\ temp_in_k[1] # <<>>
        THEN <<kelvin_to_mired(int(temp_in_k[1]))>>
        ELSE remembered

hs_color(klass, props) ==
    LET hue == _get_property(klass, props, "hue")
        sat == _get_property(klass, props, "sat")
    IN  IF hue = <<>> \/ sat = <<>> THEN <<>>
        ELSE <<int(hue[1]), int(sat[1])>>

rgb_color(klass, props) ==
    LET rgb == _get_property(klass, props, "rgb")
    IN  IF rgb = <<>> THEN <<>>
        ELSE LET n == int(rgb[1])
             IN  <<(n \div 65536) % 256, (n \div 256) % 256, n % 256>>

\* The effect property.
effect(flowing, remembered) == IF ~flowing THEN <<>> ELSE remembered

(***************************************************************************)
(* The bulb, the configuration and the calls.                              *)
(***************************************************************************)

\* What a bulb can report. Every bulb reports its power, brightness and
\* colour mode; the colour properties depend on the bulb.
BulbRgb ==
    [power |-> "on", main_power |-> "on", bg_power |-> "off",
     bright |-> <<5, 0>>, current_brightness |-> <<5, 0>>, nl_br |-> <<1, 0>>,
     bg_bright |-> <<1, 0, 0>>, color_mode |-> <<1>>, bg_lmode |-> <<1>>,
     ct |-> <<2, 7, 0, 0>>, bg_ct |-> <<2, 7, 0, 0>>,
     rgb |-> <<1, 6, 7, 1, 1, 6, 8, 0>>, bg_rgb |-> <<2, 5, 5>>,
     hue |-> <<0>>, sat |-> <<1, 0, 0>>, bg_hue |-> <<2, 4, 0>>,
     bg_sat |-> <<1, 0, 0>>]

BulbHs ==
    [BulbRgb EXCEPT !.main_power = "off",
                    !.color_mode = <<3>>, !.bg_lmode = <<3>>,
                    !.hue = <<1, 2, 0>>, !.sat = <<5, 0>>,
                    !.bg_hue = <<1, 2, 0>>, !.bg_sat = <<5, 0>>,
                    !.bright = <<1, 0, 0>>, !.nl_br = <<5, 0>>,
                    !.bg_power = "on"]

BulbTemp ==
    [BulbRgb EXCEPT !.color_mode = <<2>>, !.bg_lmode = <<2>>,
                    !.ct = <<4, 0, 0, 0>>, !.bg_ct = <<4, 0, 0, 0>>,
                    !.bright = <<3, 0>>, !.current_brightness = <<3, 0>>,
                    !.bg_bright = <<5, 0>>, !.bg_power = "on"]

BulbOff ==
    [power |-> "off", main_power |-> "on", bg_power |-> "off",
     bright |-> <<5, 0>>, current_brightness |-> <<1, 0, 0>>,
     nl_br |-> <<5, 0>>, bg_bright |-> <<5, 0>>, color_mode |-> <<2>>,
     bg_lmode |-> <<2>>]

\* The states of the device: the last properties, whether the nightlight is
\* enabled, whether a colour flow runs, whether the bulb is in music mode.
DeviceStates ==
    {[props |-> BulbRgb, nightlight |-> FALSE, flowing |-> FALSE, music |-> FALSE],
     [props |-> BulbHs, nightlight |-> TRUE, flowing |-> TRUE, music |-> FALSE],
     [props |-> BulbTemp, nightlight |-> FALSE, flowing |-> TRUE, music |-> TRUE],
     [props |-> BulbOff, nightlight |-> TRUE, flowing |-> FALSE, music |-> FALSE]}

\* device.config: the transition in ms, save_on_change and use_music_mode.
ConfiguredTransition == 350

Configs ==
    {[transition |-> ConfiguredTransition, save_on_change |-> TRUE,
      use_music_mode |-> FALSE],
     [transition |-> ConfiguredTransition, save_on_change |-> FALSE,
      use_music_mode |-> TRUE]}

\* The effects configured by the user; one has the name of a predefined one.
custom_effects_names == {"Disco"}

EFFECT_STOP == "Stop"

YEELIGHT_TEMP_ONLY_EFFECT_LIST == {"Slow Temp", EFFECT_STOP}

YEELIGHT_MONO_EFFECT_LIST ==
    {"Disco", "Strobe epilepsy!", "Alarm", "Police2", "WhatsApp", "Facebook",
     "Twitter", "Home", "Candle Flicker"} \cup YEELIGHT_TEMP_ONLY_EFFECT_LIST

YEELIGHT_COLOR_EFFECT_LIST ==
    {"Strobe color", "Police", "Christmas", "RGB", "Random Loop",
     "Fast Random Loop", "LSD", "Slowdown", "Night Mode", "Date Night",
     "Movie", "Sunrise", "Sunset", "Romance", "Happy Birthday"}
    \cup YEELIGHT_MONO_EFFECT_LIST

\* The names EFFECTS_MAP has a flow for.
EFFECTS_MAP ==
    {"Disco", "Slow Temp", "Strobe epilepsy!", "Strobe color", "Alarm",
     "Police", "Police2", "Christmas", "RGB", "Random Loop", "LSD",
     "Slowdown", "Home", "Night Mode", "Date Night", "Movie", "Sunrise",
     "Sunset", "Romance", "Happy Birthday", "Candle Flicker"}

_predefined_effects(klass) ==
    IF klass \in YeelightColorLightSupport THEN YEELIGHT_COLOR_EFFECT_LIST
    ELSE IF klass \in YeelightWhiteTempLightSupport \cup YeelightNightLightMode
    THEN YEELIGHT_TEMP_ONLY_EFFECT_LIST
    ELSE YEELIGHT_MONO_EFFECT_LIST

\* The keyword arguments of a call, each one missing (<<>>) or given.
NoKwargs ==
    [brightness |-> <<>>, color_temp |-> <<>>, hs_color |-> <<>>,
     rgb_color |-> <<>>, flash |-> <<>>, effect |-> <<>>, transition |-> <<>>]

Brightnesses == {<<0>>, <<128>>, <<255>>}

ColorTemps == {<<250>>}

HsColors == {<<120, 50>>}

RgbColors == {<<255, 0, 0>>}

Flashes == {<<"short">>}

Effects ==
    {<<"">>, <<EFFECT_STOP>>, <<"Disco">>, <<"Police">>, <<"Facebook">>,
     <<"Aurora">>}

\* The transition of a call, in seconds.
Transitions == {<<2>>}

TurnOnKwargs ==
    {NoKwargs}
    \cup {[NoKwargs EXCEPT !.brightness = b] : b \in Brightnesses}
    \cup {[NoKwargs EXCEPT !.color_temp = c] : c \in ColorTemps}
    \cup {[NoKwargs EXCEPT !.hs_color = h] : h \in HsColors}
    \cup {[NoKwargs EXCEPT !.rgb_color = c] : c \in RgbColors}
    \cup {[NoKwargs EXCEPT !.flash = f] : f \in Flashes}
    \cup {[NoKwargs EXCEPT !.effect = e] : e \in Effects}
    \cup {[NoKwargs EXCEPT !.transition = t] : t \in Transitions}
    \cup {[NoKwargs EXCEPT !.hs_color = h, !.brightness = b] :
              h \in HsColors, b \in Brightnesses}
    \cup {[NoKwargs EXCEPT !.rgb_color = c, !.color_temp = t] :
              c \in RgbColors, t \in ColorTemps}
    \cup {[NoKwargs EXCEPT !.hs_color = h, !.effect = <<"Police">>] :
              h \in HsColors}

TurnOffKwargs ==
    {NoKwargs} \cup {[NoKwargs EXCEPT !.transition = t] : t \in Transitions}

\* The commands the bulb rejects during one call: none, or those that set a
\* colour or start a flow.
Failing == {{}, {"set_hsv", "set_rgb", "start_flow"}}

(***************************************************************************)
(* The setters. A run is the part of a call carried out so far: the        *)
(* commands given to the bulb, the exception that is propagating, and the  *)
(* values the entity and the bulb hold. A setter called while an exception *)
(* propagates is a setter that is not called.                              *)
(***************************************************************************)

Command(name, args, duration) ==
    [name |-> name, args |-> args, duration |-> duration,
     light_type |-> light_type(entity), ok |-> TRUE]

\* The bulb is given a command; it raises BulbException when it rejects it.
Send(run, cmd) ==
    [run EXCEPT !.commands = Append(@, [cmd EXCEPT !.ok = cmd.name \notin run.failing]),
                !.raised = IF cmd.name \in run.failing
                           THEN "BulbException" ELSE "none"]

\* The wrapper of the setters: a BulbException is logged and goes no further.
_async_cmd(run) ==
    IF run.raised = "BulbException" THEN [run EXCEPT !.raised = "none"] ELSE run

\* Python's truth value of an optional number.
Truthy(value) == value # <<>> /\ value[1] # 0

\* async_set_brightness that sends the brightness whatever the bulb reports
\* (variant).
async_set_brightness_always(run, value, duration) ==
    IF run.raised # "none" \/ ~Truthy(value) THEN run
    ELSE _async_cmd(Send(run, Command("set_brightness",
                                      <<(value[1] * 100) \div 255>>,
                                      <<duration>>)))

\* The brightness given to the bulb is in per cent, here in whole per cent.
async_set_brightness(run, value, duration) ==
    IF run.raised # "none" \/ ~Truthy(value) THEN run
    ELSE IF brightness(entity, last_properties, run.music_mode) = value[1]
    THEN run
    ELSE _async_cmd(Send(run, Command("set_brightness",
                                      <<(value[1] * 100) \div 255>>,
                                      <<duration>>)))

async_set_hs(run, value, duration) ==
    IF run.raised # "none" THEN run
    ELSE IF value # <<>> /\ "hs" \in supported_color_modes(entity)
    THEN IF /\ color_mode(entity, last_properties) = "hs"
            /\ hs_color(entity, last_properties) = value
         THEN run
         ELSE _async_cmd(Send(run, Command("set_hsv", value, <<duration>>)))
    ELSE run

async_set_rgb(run, value, duration) ==
    IF run.raised # "none" THEN run
    ELSE IF value # <<>> /\ "rgb" \in supported_color_modes(entity)
    THEN IF /\ color_mode(entity, last_properties) = "rgb"
            /\ rgb_color(entity, last_properties) = value
         THEN run
         ELSE _async_cmd(Send(run, Command("set_rgb", value, <<duration>>)))
    ELSE run

\* Reading the color_temp property also stores what it returns.
async_set_colortemp(run, value, duration) ==
    IF run.raised # "none" THEN run
    ELSE IF Truthy(value) /\ "color_temp" \in supported_color_modes(entity)
    THEN LET temp_in_k == mired_to_kelvin(value[1])
             in_mode == color_mode(entity, last_properties) = "color_temp"
             reported == color_temp(entity, last_properties, run.color_temp)
             read == IF in_mode THEN [run EXCEPT !.color_temp = reported]
                     ELSE run
         IN  IF in_mode /\ reported = value
             THEN read
             ELSE _async_cmd(Send(read, Command("set_color_temp",
                                                <<temp_in_k>>, <<duration>>)))
    ELSE run

async_set_default(run) ==
    IF run.raised # "none" THEN run
    ELSE _async_cmd(Send(run, Command("set_default", <<>>, <<>>)))

\* The flash needs the bulb in RGB mode and the entity's hs colour; its own
\* try block logs a BulbException of the flow.
async_set_flash(run, flash) ==
    IF run.raised # "none" \/ flash = <<>> THEN run
    ELSE IF int(last_properties.color_mode) # 1 THEN run
    ELSE IF hs_color(entity, last_properties) = <<>>
    THEN [run EXCEPT !.raised = "TypeError"]
    ELSE [Send(run, Command("start_flow", <<"flash", flash[1]>>, <<>>))
             EXCEPT !.raised = "none"]

\* The flow of an effect name, <<>> when the name has none.
FlowOf(name) ==
    IF name \in custom_effects_names THEN <<"custom", name>>
    ELSE IF name \in EFFECTS_MAP THEN <<"flows", name>>
    ELSE IF name = "Fast Random Loop" THEN <<"random_loop", "250">>
    ELSE IF name = "WhatsApp" THEN <<"pulse", "37, 211, 102">>
    ELSE IF name = "Facebook" THEN <<"pulse", "59, 89, 152">>
    ELSE IF name = "Twitter" THEN <<"pulse", "0, 172, 237">>
    ELSE <<>>

\* async_set_effect that remembers the effect whether or not the flow
\* started (variant).
async_set_effect_eager(run, value) ==
    IF run.raised # "none" \/ value = <<>> THEN run
    ELSE IF value[1] = "" THEN run
    ELSE IF value[1] = EFFECT_STOP
    THEN _async_cmd(Send(run, Command("stop_flow", <<>>, <<>>)))
    ELSE IF Len(FlowOf(value[1])) = 0 THEN run
    ELSE [Send(run, Command("start_flow", FlowOf(value[1]), <<>>))
             EXCEPT !.raised = "none", !.effect = value]

async_set_effect(run, value) ==
    IF run.raised # "none" \/ value = <<>> THEN run
    ELSE IF value[1] = "" THEN run
    ELSE IF value[1] = EFFECT_STOP
    THEN _async_cmd(Send(run, Command("stop_flow", <<>>, <<>>)))
    ELSE IF Len(FlowOf(value[1])) = 0 THEN run
    ELSE LET started == Send(run, Command("start_flow", FlowOf(value[1]), <<>>))
         IN  IF started.raised = "none"
             THEN [started EXCEPT !.effect = value]
             ELSE [started EXCEPT !.raised = "none"]

\* device.async_turn_on and device.async_turn_off give the power command to
\* the bulb.
device_async_turn_on(run, duration, power_mode) ==
    [run EXCEPT !.commands =
                    Append(@, Command("turn_on", <<power_mode>>, <<duration>>))]

device_async_turn_off(run, duration) ==
    [run EXCEPT !.commands =
                    Append(@, Command("turn_off", <<>>, <<duration>>))]

\* set_music_mode in the executor: the bulb enters music mode unless it
\* rejects the command, which async_turn_on logs.
set_music_mode(run) ==
    LET started == Send(run, Command("start_music", <<>>, <<>>))
    IN  [started EXCEPT !.raised = "none",
                        !.music_mode = started.raised = "none"]

\* The transition of a call in ms: the keyword argument, in seconds, before
\* the configured one.
Duration(kwargs) ==
    IF kwargs.transition # <<>> THEN kwargs.transition[1] * 1000
    ELSE config.transition

\* The condition under which async_turn_on saves the state as default.
SaveOnChange(kwargs) ==
    /\ config.save_on_change
    /\ Truthy(kwargs.brightness) \/ Truthy(kwargs.color_temp)
       \/ kwargs.rgb_color # <<>>

\* The value of an expression, computed once.
Value(expression) == CHOOSE value \in {expression} : TRUE

\* The setters in the order async_turn_on calls them.
Setters(run, kwargs, duration) ==
    LET hs == Value(async_set_hs(run, kwargs.hs_color, duration))
        rgb == Value(async_set_rgb(hs, kwargs.rgb_color, duration))
        colortemp == Value(async_set_colortemp(rgb, kwargs.color_temp, duration))
        bright == Value(async_set_brightness(colortemp, kwargs.brightness,
                                             duration))
        flash == Value(async_set_flash(bright, kwargs.flash))
    IN  Value(async_set_effect(flash, kwargs.effect))

\* The run async_turn_on starts with.
StartRun(failing) ==
    [commands |-> <<>>, raised |-> "none", failing |-> failing,
     effect |-> _effect, color_temp |-> _color_temp,
     music_mode |-> music_mode]

\* async_turn_on up to the setters: the power command when the entity is
\* not on, then the music mode when it is configured.
Powered(run, duration) ==
    LET powered == IF ~is_on(entity, last_properties, is_nightlight_enabled)
                   THEN device_async_turn_on(run, duration,
                                             _turn_on_power_mode(entity))
                   ELSE run
    IN  IF config.use_music_mode /\ ~powered.music_mode
        THEN set_music_mode(powered)
        ELSE powered

\* async_turn_on after the setters: a BulbException that reaches it ends
\* the call, else the state is saved when there was a manual change.
Saved(run, kwargs) ==
    IF run.raised = "BulbException"
    THEN [run EXCEPT !.raised = "none"]
    ELSE IF run.raised = "none" /\ SaveOnChange(kwargs)
    THEN [async_set_default(run) EXCEPT !.raised = IF @ = "BulbException"
                                                  THEN "none" ELSE @]
    ELSE run

\* The whole of async_turn_on as a run.
TurnOnRun(kwargs, failing) ==
    Value(Saved(Value(Setters(Value(Powered(Value(StartRun(failing)),
                                            Duration(kwargs))),
                              kwargs, Duration(kwargs))),
                kwargs))

(***************************************************************************)
(* The calls on the entity and the updates of the device.                  *)
(***************************************************************************)

NoEnergy ==
    /\ data = None
    /\ stored = None
    /\ last_update = None
    /\ update_lock = 0
    /\ hass_data = EmptyDict
    /\ processing = {}
    /\ enumerations = 0
    /\ skipped = {}
    /\ pc = [r \in Requests |-> "idle"]
    /\ kind = [r \in Requests |-> "none"]
    /\ msg = [r \in Requests |-> None]
    /\ body = [r \in Requests |-> None]
    /\ is_admin = [r \in Requests |-> FALSE]
    /\ msg_id = [r \in Requests |-> 0]
    /\ config_entries = [r \in Requests |-> <<>>]
    /\ idx = [r \in Requests |-> 0]
    /\ invoked = [r \in Requests |-> <<>>]
    /\ forecasts = [r \in Requests |-> EmptyDict]
    /\ prefs_read = [r \in Requests |-> None]
    /\ response = [r \in Requests |-> None]
    /\ sent = [r \in Requests |-> 0]

\* The entity is one of those async_setup_entry has added for the bulb, as
\* its constructor leaves it.
LightInit ==
    /\ NoEnergy
    /\ device_type \in BulbTypes
    /\ nl_switch_light \in BOOLEAN
    /\ \E i \in DOMAIN async_setup_entry(device_type, nl_switch_light) :
           entity = async_setup_entry(device_type, nl_switch_light)[i]
    /\ config \in Configs
    /\ \E device \in DeviceStates :
           /\ last_properties = device.props
           /\ is_nightlight_enabled = device.nightlight
           /\ is_color_flow_enabled = device.flowing
           /\ music_mode = device.music
    /\ _effect = <<>>
    /\ _color_temp = <<>>
    /\ call = [op |-> "none"]
    /\ commands = <<>>

async_turn_on(kwargs, failing) ==
    /\ entity # "none"
    /\ \E run \in {TurnOnRun(kwargs, failing)} :
           /\ commands' = run.commands
           /\ _effect' = run.effect
           /\ _color_temp' = run.color_temp
           /\ music_mode' = run.music_mode
           /\ call' = [op |-> "turn_on", kwargs |-> kwargs,
                       raised |-> run.raised]
    /\ UNCHANGED <<device_type, nl_switch_light, entity, config,
                   last_properties, is_nightlight_enabled,
                   is_color_flow_enabled>>
    /\ UNCHANGED energyVars

async_turn_off(kwargs) ==
    /\ entity # "none"
    /\ LET start == [commands |-> <<>>]
       IN  commands' = IF ~is_on(entity, last_properties, is_nightlight_enabled)
                       THEN start.commands
                       ELSE device_async_turn_off(start, Duration(kwargs)).commands
    /\ call' = [op |-> "turn_off", kwargs |-> kwargs, raised |-> "none"]
    /\ UNCHANGED <<device_type, nl_switch_light, entity, config,
                   last_properties, is_nightlight_enabled,
                   is_color_flow_enabled, music_mode, _effect, _color_temp>>
    /\ UNCHANGED energyVars

\* The bulb reports its properties anew; the call before it has returned.
DeviceUpdated(device) ==
    /\ entity # "none"
    /\ last_properties' = device.props
    /\ is_nightlight_enabled' = device.nightlight
    /\ is_color_flow_enabled' = device.flowing
    /\ music_mode' = device.music
    /\ call' = [op |-> "none"]
    /\ commands' = <<>>
    /\ UNCHANGED <<device_type, nl_switch_light, entity, config, _effect,
                   _color_temp>>
    /\ UNCHANGED energyVars

LightNext ==
    \/ \E kwargs \in TurnOnKwargs, failing \in Failing :
           async_turn_on(kwargs, failing)
    \/ \E kwargs \in TurnOffKwargs : async_turn_off(kwargs)
    \/ \E device \in DeviceStates : DeviceUpdated(device)

SpecLight == LightInit /\ [][LightNext]_vars

(***************************************************************************)
(* Properties of the light entity.                                         *)
(***************************************************************************)

IsTurnOn == call.op = "turn_on"

IsTurnOff == call.op = "turn_off"

\* The positions in the commands of the call of those with one of the names.
Sent(names) == {i \in 1..Len(commands) : commands[i].name \in names}

\* The bulb commands the setters of async_turn_on give.
SetterCommands ==
    {"set_hsv", "set_rgb", "set_color_temp", "set_brightness", "start_flow",
     "stop_flow"}

\* C25: when the bulb rejects a command of one of the setters of
\* async_turn_on, the call ends there: no other command follows it, neither
\* of a later setter nor set_default.
C25_StopsAtFailedSetter ==
    IsTurnOn
    => \A i \in Sent(SetterCommands) :
           ~commands[i].ok => i = Len(commands)

\* The setters of the call gave their commands and the bulb took them all.
SettersSucceeded ==
    /\ call.raised = "none"
    /\ \A i \in Sent(SetterCommands) : commands[i].ok

\* The call carries a manual change: a brightness, a colour temperature, an
\* RGB colour or an HS colour.
ManualChange ==
    \/ Truthy(call.kwargs.brightness)
    \/ Truthy(call.kwargs.color_temp)
    \/ call.kwargs.rgb_color # <<>>
    \/ call.kwargs.hs_color # <<>>

\* C26: with save_on_change on, an async_turn_on that carries a manual
\* change and whose setters succeed ends with set_default, sent after the
\* commands of the setters; with save_on_change off, or without a manual
\* change, set_default is not sent.
C26_SavedAfterManualChange ==
    IsTurnOn
    => /\ (config.save_on_change /\ ManualChange /\ SettersSucceeded)
          => /\ commands # <<>>
             /\ commands[Len(commands)].name = "set_default"
       /\ (~config.save_on_change \/ ~ManualChange)
          => Sent({"set_default"}) = {}

\* The number of commands of the call with the name.
Count(name) == Cardinality(Sent({name}))

\* The entity supports the colour mode, is in it and reports the value.
Reports(mode, reported, value) ==
    /\ color_mode(entity, last_properties) = mode
    /\ reported = value

\* C27: each of the setters for brightness, HS colour, RGB colour and colour
\* temperature sends no command when the value is None or zero, when the
\* entity does not support the colour mode, or when the bulb already reports
\* the value (in the matching colour mode; for the brightness, the same
\* whole number out of 255); otherwise it sends exactly one.
C27_SettersSendWhenNeeded ==
    IsTurnOn
    => /\ Count("set_brightness") =
              IF \/ ~Truthy(call.kwargs.brightness)
                 \/ brightness(entity, last_properties, music_mode)
                        = call.kwargs.brightness[1]
              THEN 0 ELSE 1
       /\ Count("set_hsv") =
              IF \/ call.kwargs.hs_color = <<>>
                 \/ "hs" \notin supported_color_modes(entity)
                 \/ Reports("hs", hs_color(entity, last_properties),
                            call.kwargs.hs_color)
              THEN 0 ELSE 1
       /\ Count("set_rgb") =
              IF \/ call.kwargs.rgb_color = <<>>
                 \/ "rgb" \notin supported_color_modes(entity)
                 \/ Reports("rgb", rgb_color(entity, last_properties),
                            call.kwargs.rgb_color)
              THEN 0 ELSE 1
       /\ Count("set_color_temp") =
              IF \/ ~Truthy(call.kwargs.color_temp)
                 \/ "color_temp" \notin supported_color_modes(entity)
                 \/ Reports("color_temp",
                            color_temp(entity, last_properties, _color_temp),
                            call.kwargs.color_temp)
              THEN 0 ELSE 1

\* A call with an HS colour the bulb does not report and the brightness it
\* reports: set_hsv is sent, set_brightness is not.
C27_Witness ==
    /\ IsTurnOn
    /\ call.kwargs.hs_color # <<>>
    /\ Truthy(call.kwargs.brightness)
    /\ brightness(entity, last_properties, music_mode) = call.kwargs.brightness[1]
    /\ Count("set_hsv") = 1
    /\ Count("set_brightness") = 0

\* The bulb was set up with a main light and a nightlight entity.
HasNightlightSwitch ==
    nl_switch_light /\ device_type \in {"Color", "WhiteTemp", "WhiteTempMood"}

\* The power mode the entity turns the bulb on with: a nightlight entity in
\* moonlight mode, the main light beside it in normal mode, any other light
\* in the last mode.
ExpectedPowerMode ==
    IF ~HasNightlightSwitch \/ entity = "YeelightAmbientLight" THEN "LAST"
    ELSE IF entity \in YeelightNightLightMode THEN "MOONLIGHT"
    ELSE "NORMAL"

\* C28: async_turn_off sends nothing when the entity is not on;
\* async_turn_on sends the power-on command exactly when the entity is not
\* on, with the power mode of the entity and with the transition of the call
\* (seconds times 1000) if it has one, else the configured transition.
C28_PowerCommand ==
    /\ (IsTurnOff /\ ~is_on(entity, last_properties, is_nightlight_enabled))
       => commands = <<>>
    /\ IsTurnOn
       => /\ Count("turn_on") =
                 IF is_on(entity, last_properties, is_nightlight_enabled)
                 THEN 0 ELSE 1
          /\ \A i \in Sent({"turn_on"}) :
                 /\ commands[i].args = <<ExpectedPowerMode>>
                 /\ commands[i].duration =
                        IF call.kwargs.transition # <<>>
                        THEN <<call.kwargs.transition[1] * 1000>>
                        ELSE <<config.transition>>

\* A nightlight entity that is not on is turned on with a transition.
C28_Witness ==
    /\ IsTurnOn
    /\ entity \in YeelightNightLightMode
    /\ call.kwargs.transition # <<>>
    /\ Count("turn_on") = 1

\* The main light and the nightlight entity async_setup_entry creates for a
\* bulb with the nightlight switch.
MainEntity ==
    IF device_type = "WhiteTempMood"
    THEN async_setup_entry(device_type, nl_switch_light)[2]
    ELSE async_setup_entry(device_type, nl_switch_light)[1]

NightlightEntity ==
    IF device_type = "WhiteTempMood"
    THEN async_setup_entry(device_type, nl_switch_light)[1]
    ELSE async_setup_entry(device_type, nl_switch_light)[2]

\* The power property of the device: main_power for a WhiteTempMood bulb.
DevicePowerIsOn(props) ==
    IF device_type = "WhiteTempMood"
    THEN props.main_power = "on"
    ELSE props.power = "on"

\* What the two entities report in a device state.
OneOnWithPower(props, nightlight) ==
    LET main == is_on(MainEntity, props, nightlight)
        night == is_on(NightlightEntity, props, nightlight)
    IN  /\ ~(main /\ night)
        /\ (main \/ night) <=> DevicePowerIsOn(props)

\* C29: for a bulb set up with the nightlight switch, the main light and the
\* nightlight entity are never both on, and one of them is on exactly when
\* the power property of the device is "on": in the state the device is in,
\* and in that state with any other power, main_power and nightlight mode.
C29_MainOrNightlight ==
    HasNightlightSwitch
    => /\ OneOnWithPower(last_properties, is_nightlight_enabled)
       /\ \A power \in {"on", "off", "unknown"}, main_power \in {"on", "off"},
             nightlight \in BOOLEAN :
               OneOnWithPower([last_properties EXCEPT !.power = power,
                                                      !.main_power = main_power],
                              nightlight)

\* The nightlight entity of a WhiteTempMood bulb is on, after a call, while
\* the bulb's power property (not its main_power) says off.
C29_Witness ==
    /\ HasNightlightSwitch
    /\ device_type = "WhiteTempMood"
    /\ call.op # "none"
    /\ last_properties.power = "off"
    /\ is_on(NightlightEntity, last_properties, is_nightlight_enabled)
    /\ ~is_on(MainEntity, last_properties, is_nightlight_enabled)

\* The names async_set_effect has a flow for.
KnownEffects ==
    custom_effects_names \cup EFFECTS_MAP
    \cup {"Fast Random Loop", "WhatsApp", "Facebook", "Twitter"}

\* The call has started, with success, the flow of the effect it names: the
\* custom one if there is a custom effect of that name.
StartedFlow(cmds, name) ==
    \E i \in 1..Len(cmds) :
        /\ cmds[i].name = "start_flow"
        /\ cmds[i].ok
        /\ cmds[i].args = IF name \in custom_effects_names
                          THEN <<"custom", name>> ELSE FlowOf(name)

\* A step that changes the remembered effect is an async_turn_on with the
\* name of a known effect other than Stop, whose flow the bulb has started.
RememberedOnStart ==
    _effect' # _effect
    => /\ call'.op = "turn_on"
       /\ call'.kwargs.effect # <<>>
       /\ _effect' = call'.kwargs.effect
       /\ call'.kwargs.effect[1] \in KnownEffects \ {"", EFFECT_STOP}
       /\ StartedFlow(commands', call'.kwargs.effect[1])

\* C30: the remembered effect changes only when async_set_effect has started
\* the flow of a known effect, a custom one before a predefined one (so Stop,
\* an unknown name, an empty value and a rejected start leave it as it was);
\* every predefined effect name is Stop or has a flow; and the effect
\* property is None while the device is not flowing.
C30_EffectRemembered ==
    /\ [][RememberedOnStart]_vars
    /\ [](/\ \A name \in YEELIGHT_COLOR_EFFECT_LIST \cup _predefined_effects(entity) :
                 name = EFFECT_STOP \/ Len(FlowOf(name)) > 0
          /\ ~is_color_flow_enabled
             => effect(is_color_flow_enabled, _effect) = <<>>)

\* An effect that is both custom and predefined was started as the custom
\* one and is remembered, while the effect property reports None because the
\* device is not flowing.
C30_Witness ==
    /\ IsTurnOn
    /\ call.kwargs.effect = <<"Disco">>
    /\ _effect = <<"Disco">>
    /\ StartedFlow(commands, "Disco")
    /\ ~is_color_flow_enabled
    /\ effect(is_color_flow_enabled, _effect) = <<>>

====
